---------------------------- MODULE Spec2Model ----------------------------
(***************************************************************************)
(* Model of t1dgrs2/common.py: the five helpers run_shell_cmd,             *)
(* delete_files_within, validate_plinkfiles, validate_textfile and         *)
(* read_dataframe, each a logging wrapper around an OS or file primitive.  *)
(*                                                                         *)
(* One behaviour is one call: Init draws the function, its arguments and   *)
(* the environment it runs in (the child process, the directory tree, the  *)
(* files on disk), the actions are the statements of the function body in  *)
(* order, and the behaviour ends when the call has returned or raised.     *)
(*                                                                         *)
(* Strings are sequences of tokens.  A token is one character, except the  *)
(* extensions ".bed", ".bim", ".fam": no concatenation of the other tokens *)
(* used in paths spells ".bed", so an occurrence of the text ".bed" in a   *)
(* path is exactly an occurrence of the token.                             *)
(* Python runs with assertions enabled (no -O), the interpreter default.   *)
(***************************************************************************)
EXTENDS Naturals, Sequences, FiniteSets

VARIABLES
    fn,        \* the function the caller invoked
    stack,     \* call stack of frames, the running function last
    log,       \* records handed to _LOG, in order
    outcome,   \* what the caller got: pending, returned or raised
    fault,     \* the first exception raised into a function body
    proc,      \* run_shell_cmd: the child process the command will be
    spawned,   \* run_shell_cmd: whether the child process was started
    arg,       \* validate_*: argument
    dirpath,   \* delete_files_within: argument
    pattern,   \* delete_files_within: argument
    dirs,      \* delete_files_within: the directories of the tree
    tree,      \* delete_files_within: non-directory entries at the call
    entries,   \* delete_files_within: non-directory entries now on disk
    pending,   \* delete_files_within: directories os.walk still has to list
    todo,      \* delete_files_within: the list fs of the current directory
    walkroot,  \* delete_files_within: r of the current os.walk triple
    unlisted,  \* delete_files_within: directories os.walk failed to list
    files,     \* validate_*: canonical path -> file on disk
    links,     \* validate_*: symbolic links, <<path, target>>
    handles,   \* validate_*: file objects currently open
    opened,    \* validate_*: every path handed to open(), in order
    passed,    \* validate_*: paths whose check was passed
    csv,       \* read_dataframe: the delimited file
    usecols,   \* read_dataframe: argument
    dtype      \* read_dataframe: argument

\* what a call is given: never changed by it
envVars == << fn, proc, arg, dirpath, pattern, dirs, tree, files, links, csv, usecols, dtype >>
\* the progress of os.walk and of the deletions
walkVars == << entries, pending, todo, walkroot, unlisted >>
\* the file objects of the validators
fileVars == << handles, opened, passed >>

vars == << envVars, walkVars, fileVars, stack, log, outcome, fault, spawned >>

-----------------------------------------------------------------------------
(* Bounds of the model *)

\* longest standard output / standard error of the child process
MaxOut == 3
\* longest .bed file
MaxBedLen == 4

-----------------------------------------------------------------------------
(* Values *)

NoExc == [type |-> "", about |-> <<>>]
Exc(t, a) == [type |-> t, about |-> a]

Pending == [kind |-> "pending", value |-> <<>>, exc |-> NoExc]
Returned(v) == [kind |-> "returned", value |-> v, exc |-> NoExc]
Raised(e) == [kind |-> "raised", value |-> <<>>, exc |-> e]

\* the values of the variables a call does not use
NoProc == [rc |-> 0, seconds |-> 1, stdout |-> <<>>, stderr |-> <<>>, decodes |-> TRUE]
NoPattern == [given |-> FALSE, text |-> <<>>]
NoCsv == [exists |-> FALSE, header |-> <<>>, ints |-> {}]

Frame(f, a) == [fn |-> f, pc |-> "debug", arg |-> a, file |-> <<>>, exc |-> NoExc]

Top == stack[Len(stack)]
SetTop(f) == [stack EXCEPT ![Len(stack)] = f]
Running(f, p) == Len(stack) > 0 /\ Top.fn = f /\ Top.pc = p

LogRec(level, f, kind, text) ==
    [level |-> level, fn |-> f, kind |-> kind, text |-> text]

\* _LOG.debug(f"Executing: <fn>(<args>)")
LogDebug(f, a) == LogRec("DEBUG", f, "invocation", a)
\* _LOG.info(f"File found: '{file}'")
LogInfo(f, a) == LogRec("INFO", f, "found", a)
\* _LOG.exception(e): an ERROR record carrying the exception
LogException(f, e) == LogRec("ERROR", f, e.type, e.about)
\* _LOG.error(_EXIT_MSG)
LogExit(f) == LogRec("ERROR", f, "_EXIT_MSG", <<>>)

\* return: the frame is popped; a nested validate_textfile resumes its caller
\* (which discards the value), the outermost call hands the value out.
Return(v) ==
    IF Len(stack) = 1
    THEN /\ stack' = <<>>
         /\ outcome' = Returned(v)
    ELSE /\ stack' = [SubSeq(stack, 1, Len(stack) - 1) EXCEPT
                        ![Len(stack) - 1].pc =
                            IF stack[Len(stack) - 1].pc = "bim" THEN "fam" ELSE "ret"]
         /\ UNCHANGED outcome

\* raise e out of the running function: into the caller's except clause, or
\* out to the caller of the module.
RaiseOut(e) ==
    IF Len(stack) = 1
    THEN /\ stack' = <<>>
         /\ outcome' = Raised(e)
    ELSE /\ stack' = [SubSeq(stack, 1, Len(stack) - 1) EXCEPT
                        ![Len(stack) - 1].pc = "except",
                        ![Len(stack) - 1].exc = e]
         /\ UNCHANGED outcome

\* an exception raised inside the try block of the running function
Catch(e) ==
    /\ stack' = SetTop([Top EXCEPT !.pc = "except", !.exc = e])
    /\ fault' = IF fault = NoExc THEN e ELSE fault

\* a handler that logs and then returns instead of raising
HandlerSwallow(f) ==
    /\ Running(f, "except")
    /\ log' = log \o << LogException(f, Top.exc), LogExit(f) >>
    /\ Return(<<>>)

\* except ... as e: _LOG.exception(e); _LOG.error(_EXIT_MSG); raise e
Handler(f) ==
    /\ Running(f, "except")
    /\ log' = log \o << LogException(f, Top.exc), LogExit(f) >>
    /\ RaiseOut(Top.exc)

-----------------------------------------------------------------------------
(* run_shell_cmd *)

Whitespace == {" ", "\n"}
OutChars == {" ", "\n", "x"}

RECURSIVE LStrip(_)
LStrip(s) ==
    IF s # <<>> /\ Head(s) \in Whitespace THEN LStrip(Tail(s)) ELSE s

RECURSIVE RStrip(_)
RStrip(s) ==
    IF s # <<>> /\ s[Len(s)] \in Whitespace
    THEN RStrip(SubSeq(s, 1, Len(s) - 1))
    ELSE s

\* stripping the leading whitespace only
StripLeading(s) == LStrip(s)

\* str.strip()
Strip(s) == RStrip(LStrip(s))

\* timeout=300
TIMEOUT == 300

Streams == UNION {[1..n -> OutChars] : n \in 0..MaxOut}

\* The child process: its exit code, how long it runs, what it writes, and
\* whether what it writes decodes as text (text=True decodes strictly).
Procs ==
    [rc : 0..2, seconds : {1, TIMEOUT - 1, TIMEOUT + 1},
     stdout : Streams, stderr : {<<>>, <<"x">>, <<"x", "\n">>},
     decodes : BOOLEAN]

TimedOut(p) == p.seconds > TIMEOUT

\* what _run(...) does with the child process: the exception it raises, or
\* NoExc.  The wait times out before any exit code is seen; the captured
\* streams are decoded before check=True looks at the exit code.
RunRaises(p) ==
    IF TimedOut(p) THEN Exc("TimeoutExpired", <<>>)
    ELSE IF ~p.decodes THEN Exc("UnicodeDecodeError", <<>>)
    ELSE IF p.rc # 0 THEN Exc("CalledProcessError", p.stderr)
    ELSE NoExc

\* an except clause that matches every exception
ShellCatchesAny(e) == e.type # ""

\* except _CalledProcessError as e
ShellCatches(e) == e.type = "CalledProcessError"

RunShellCmdDebug ==
    /\ Running("run_shell_cmd", "debug")
    /\ log' = Append(log, LogDebug("run_shell_cmd", <<>>))
    /\ stack' = SetTop([Top EXCEPT !.pc = "run"])
    /\ UNCHANGED << envVars, walkVars, fileVars, outcome, fault, spawned >>

\* exc = _run(cmd, shell=True, check=True, capture_output=True, text=True,
\*            timeout=300); return exc.stdout.strip()
\* An exception no except clause matches leaves the function at once.
RunShellCmdRun ==
    /\ Running("run_shell_cmd", "run")
    /\ spawned' = TRUE
    /\ LET e == RunRaises(proc) IN
       IF e = NoExc
       THEN /\ Return(Strip(proc.stdout))
            /\ UNCHANGED fault
       ELSE IF ShellCatches(e)
       THEN /\ Catch(e)
            /\ UNCHANGED outcome
       ELSE /\ fault' = e
            /\ RaiseOut(e)
    /\ UNCHANGED << envVars, walkVars, fileVars, log >>

\* except _CalledProcessError as e:
\*     _LOG.exception(e.stderr); _LOG.error(_EXIT_MSG); raise e
RunShellCmdExcept ==
    /\ Running("run_shell_cmd", "except")
    /\ log' = log \o << LogRec("ERROR", "run_shell_cmd", "stderr", Top.exc.about),
                        LogExit("run_shell_cmd") >>
    /\ RaiseOut(Top.exc)
    /\ UNCHANGED << envVars, walkVars, fileVars, fault, spawned >>

-----------------------------------------------------------------------------
(* delete_files_within *)

\* os.path.join(r, f): a separator is added unless r already ends with one
Join(r, f) == IF r # <<>> /\ r[Len(r)] = "/" THEN r \o f ELSE r \o <<"/">> \o f

\* pattern in file: pattern occurs in file as a contiguous run of characters
Contains(p, s) ==
    \E i \in 1..(Len(s) + 1) :
        /\ i + Len(p) - 1 <= Len(s)
        /\ SubSeq(s, i, i + Len(p) - 1) = p

\* the directory record of a path
DirAt(p) == CHOOSE d \in dirs : d.path = p

\* every directory above d grants search (x) permission
RECURSIVE Reachable(_)
Reachable(d) ==
    d.parent = <<>> \/ ("x" \in DirAt(d.parent).perm /\ Reachable(DirAt(d.parent)))

\* os.scandir(d) succeeds
CanList(d) == "r" \in d.perm /\ Reachable(d)
\* os.stat of an entry of d succeeds
CanStat(d) == "x" \in d.perm /\ Reachable(d)
\* os.remove of an entry of d succeeds
CanUnlink(d) == "w" \in d.perm /\ "x" \in d.perm /\ Reachable(d)

\* the joined path of an entry
PathOf(e) == Join(e.dir, e.name)

\* os.path.isfile(file): follows symbolic links, False when stat fails
IsFile(e) == CanStat(DirAt(e.dir)) /\ e.kind \in {"reg", "link"}

\* if pattern is None: remove; elif pattern is not None and pattern in file: remove
Selected(pat, file) == ~pat.given \/ Contains(pat.text, file)

\* a permutation of a finite set of paths, as a sequence
Orders(S) == {q \in [1..Cardinality(S) -> S] : \A i, j \in 1..Cardinality(S) : q[i] = q[j] => i = j}

DeleteFilesWithinDebug ==
    /\ Running("delete_files_within", "debug")
    /\ log' = Append(log, LogDebug("delete_files_within", dirpath))
    /\ stack' = SetTop([Top EXCEPT !.pc = "walk"])
    /\ pending' = << dirpath >>
    /\ UNCHANGED << envVars, entries, todo, walkroot, unlisted, fileVars,
                    outcome, fault, spawned >>

\* for r, _, fs in _os.walk(dirpath): the next triple of the generator.
\* os.walk is top-down, does not follow links, and with onerror=None drops a
\* directory whose listing fails and goes on; exhausted, the function returns.
DeleteFilesWithinWalk ==
    /\ Running("delete_files_within", "walk")
    /\ todo = {}
    /\ IF pending = <<>>
       THEN /\ Return(<<>>)
            /\ UNCHANGED << pending, todo, walkroot, unlisted >>
       ELSE LET d == DirAt(Head(pending)) IN
            IF CanList(d)
            THEN /\ \E q \in Orders({c.path : c \in {c \in dirs : c.parent = d.path}}) :
                        pending' = q \o Tail(pending)
                 /\ todo' = {e \in entries : e.dir = d.path}
                 /\ walkroot' = d.path
                 /\ UNCHANGED << stack, outcome, unlisted >>
            ELSE /\ pending' = Tail(pending)
                 /\ unlisted' = unlisted \cup {d.path}
                 /\ UNCHANGED << stack, outcome, todo, walkroot >>
    /\ UNCHANGED << envVars, entries, fileVars, log, fault, spawned >>

\* for f in fs: one pass of the loop body
DeleteFilesWithinFile ==
    /\ Running("delete_files_within", "walk")
    /\ \E e \in todo :
        LET file == Join(walkroot, e.name) IN
        IF IsFile(e) /\ Selected(pattern, file)
        THEN IF CanUnlink(DirAt(e.dir))
             THEN /\ entries' = entries \ {e}
                  /\ todo' = todo \ {e}
                  /\ UNCHANGED << stack, fault >>
             ELSE /\ Catch(Exc("PermissionError", file))
                  /\ todo' = {}
                  /\ UNCHANGED entries
        ELSE /\ todo' = todo \ {e}
             /\ UNCHANGED << entries, stack, fault >>
    /\ UNCHANGED << envVars, pending, walkroot, unlisted, fileVars, log,
                    outcome, spawned >>

DeleteFilesWithinExcept ==
    /\ Handler("delete_files_within")
    /\ UNCHANGED << envVars, walkVars, fileVars, fault, spawned >>

\* The trees the calls are tried on: a top directory holding a.t and b.l and
\* optionally a subdirectory s holding c.t; every entry is a regular file, a
\* link to a regular file or a dangling link.
Perms == {{"r", "w", "x"}, {"w", "x"}, {"r", "x"}, {"r", "w"}}
Kinds == {"reg", "link", "dangling"}
DirPaths == {<<"d">>, <<"d", "/">>, <<"d", ".", "t">>}
Patterns ==
    {NoPattern} \cup
    {[given |-> TRUE, text |-> t] : t \in {<<>>, <<".", "t">>, <<"s", "/">>, <<"l">>}}
TopNames == {<<"a", ".", "t">>, <<"b", ".", "l">>}
SubNames == {<<"c", ".", "t">>}
SubOf(p) == Join(p, <<"s">>)

EntriesIn(d, names) ==
    UNION {{ {[dir |-> d, name |-> n, kind |-> k[n]] : n \in N} : k \in [N -> Kinds] }
           : N \in SUBSET names}

InitDelete ==
    /\ fn = "delete_files_within"
    /\ dirpath \in DirPaths
    /\ pattern \in Patterns
    /\ stack = << Frame("delete_files_within", dirpath) >>
    /\ \E tp \in Perms, te \in EntriesIn(dirpath, TopNames) :
        \/ /\ dirs = {[path |-> dirpath, parent |-> <<>>, perm |-> tp]}
           /\ tree = te
        \/ \E sp \in Perms, se \in EntriesIn(SubOf(dirpath), SubNames) :
           /\ dirs = {[path |-> dirpath, parent |-> <<>>, perm |-> tp],
                      [path |-> SubOf(dirpath), parent |-> dirpath, perm |-> sp]}
           /\ tree = te \cup se
    /\ entries = tree
    /\ proc = NoProc /\ arg = <<>>
    /\ files = {} /\ links = {}
    /\ csv = NoCsv /\ usecols = {} /\ dtype = {}

-----------------------------------------------------------------------------
(* validate_textfile and validate_plinkfiles *)

\* the working directory of the process
Cwd == <<"/", "w">>

\* os.path.realpath(p): made absolute against the working directory, then
\* symbolic links resolved
Absolute(p) == IF p # <<>> /\ Head(p) = "/" THEN p ELSE Cwd \o <<"/">> \o p
Realpath(p) ==
    IF \E l \in links : l[1] = Absolute(p)
    THEN (CHOOSE l \in links : l[1] = Absolute(p))[2]
    ELSE Absolute(p)

Exists(p) == \E f \in files : f.path = p
FileAt(p) == CHOOSE f \in files : f.path = p

\* open(file, ...): the exception it raises, or NoExc
OpenRaises(p) ==
    IF ~Exists(p) THEN Exc("FileNotFoundError", p)
    ELSE IF ~FileAt(p).readable THEN Exc("PermissionError", p)
    ELSE NoExc

\* a file object that is never closed
ReleaseLeak(hs, p) == hs \cup {p}

\* leaving a with block closes its file object
Release(hs, p) == hs \ {p}

\* decoding as UTF-8: 255 is a byte no UTF-8 text holds, the others are ASCII
Decodes(bytes) == \A i \in 1..Len(bytes) : bytes[i] < 128

\* f.readline() in text mode: the exception it raises, or NoExc.  At the end
\* of the file it returns "" and raises nothing.
ReadlineRaises(p) ==
    IF Decodes(FileAt(p).bytes) THEN NoExc ELSE Exc("UnicodeDecodeError", p)

\* bed_magic_num = [108, 27, 1]
bed_magic_num == <<108, 27, 1>>

\* fbed.read(3): the first three bytes, fewer when the file is shorter
Read3(bytes) == SubSeq(bytes, 1, IF Len(bytes) < 3 THEN Len(bytes) ELSE 3)

\* a comparison of the first two bytes only
MagicOkTwo(bytes) ==
    Len(bytes) >= 2 /\ bytes[1] = bed_magic_num[1] /\ bytes[2] = bed_magic_num[2]

\* [byte for byte in bytearray(fbed.read(3))] == bed_magic_num
MagicOk(bytes) == Read3(bytes) = bed_magic_num

\* bed.replace(".bed", ""): every occurrence of ".bed" is taken out
StripBed(p) == SelectSeq(p, LAMBDA t : t # ".bed")

ValidateTextfileDebug ==
    /\ Running("validate_textfile", "debug")
    /\ log' = Append(log, LogDebug("validate_textfile", Top.arg))
    /\ stack' = SetTop([Top EXCEPT !.pc = "open"])
    /\ UNCHANGED << envVars, walkVars, fileVars, outcome, fault, spawned >>

\* file = _os.path.realpath(arg); with open(file, mode="r", ...) as f:
ValidateTextfileOpen ==
    /\ Running("validate_textfile", "open")
    /\ LET file == Realpath(Top.arg) IN
       IF OpenRaises(file) # NoExc
       THEN /\ Catch(OpenRaises(file))
            /\ UNCHANGED << handles, opened >>
       ELSE /\ handles' = handles \cup {file}
            /\ opened' = Append(opened, file)
            /\ stack' = SetTop([Top EXCEPT !.pc = "read", !.file = file])
            /\ UNCHANGED fault
    /\ UNCHANGED << envVars, walkVars, passed, log, outcome, spawned >>

\* f.readline(); _LOG.info(...); the with block is left; return file
ValidateTextfileRead ==
    /\ Running("validate_textfile", "read")
    /\ handles' = Release(handles, Top.file)
    /\ IF ReadlineRaises(Top.file) # NoExc
       THEN /\ Catch(ReadlineRaises(Top.file))
            /\ UNCHANGED << passed, log, outcome >>
       ELSE /\ passed' = passed \cup {Top.file}
            /\ log' = Append(log, LogInfo("validate_textfile", Top.file))
            /\ Return(Top.file)
            /\ UNCHANGED fault
    /\ UNCHANGED << envVars, walkVars, opened, spawned >>

ValidateTextfileExcept ==
    /\ Handler("validate_textfile")
    /\ UNCHANGED << envVars, walkVars, fileVars, fault, spawned >>

ValidatePlinkfilesDebug ==
    /\ Running("validate_plinkfiles", "debug")
    /\ log' = Append(log, LogDebug("validate_plinkfiles", Top.arg))
    /\ stack' = SetTop([Top EXCEPT !.pc = "open"])
    /\ UNCHANGED << envVars, walkVars, fileVars, outcome, fault, spawned >>

\* bed = _os.path.realpath(f"{arg}.bed"); with open(bed, mode="rb") as fbed:
ValidatePlinkfilesOpen ==
    /\ Running("validate_plinkfiles", "open")
    /\ LET bed == Realpath(Top.arg \o <<".bed">>) IN
       IF OpenRaises(bed) # NoExc
       THEN /\ Catch(OpenRaises(bed))
            /\ UNCHANGED << handles, opened >>
       ELSE /\ handles' = handles \cup {bed}
            /\ opened' = Append(opened, bed)
            /\ stack' = SetTop([Top EXCEPT !.pc = "check", !.file = bed])
            /\ UNCHANGED fault
    /\ UNCHANGED << envVars, walkVars, passed, log, outcome, spawned >>

\* assert [byte for byte in bytearray(fbed.read(3))] == bed_magic_num,
\*     f"File '{bed}' is not a PLINK .bed file."
\* _LOG.info(f"File found: '{bed}'"); the with block is left
ValidatePlinkfilesCheck ==
    /\ Running("validate_plinkfiles", "check")
    /\ handles' = Release(handles, Top.file)
    /\ IF MagicOk(FileAt(Top.file).bytes)
       THEN /\ passed' = passed \cup {Top.file}
            /\ log' = Append(log, LogInfo("validate_plinkfiles", Top.file))
            /\ stack' = SetTop([Top EXCEPT !.pc = "bim"])
            /\ UNCHANGED fault
       ELSE /\ Catch(Exc("AssertionError", Top.file))
            /\ UNCHANGED << passed, log >>
    /\ UNCHANGED << envVars, walkVars, opened, outcome, spawned >>

\* validate_textfile(f"{arg}.bim"); validate_textfile(f"{arg}.fam")
ValidatePlinkfilesCall ==
    /\ \/ Running("validate_plinkfiles", "bim")
       \/ Running("validate_plinkfiles", "fam")
    /\ stack' = Append(stack,
                       Frame("validate_textfile",
                             Top.arg \o (IF Top.pc = "bim" THEN <<".bim">> ELSE <<".fam">>)))
    /\ UNCHANGED << envVars, walkVars, fileVars, log, outcome, fault, spawned >>

\* return bed.replace(".bed", "")
ValidatePlinkfilesReturn ==
    /\ Running("validate_plinkfiles", "ret")
    /\ Return(StripBed(Top.file))
    /\ UNCHANGED << envVars, walkVars, fileVars, log, fault, spawned >>

ValidatePlinkfilesExcept ==
    /\ Handler("validate_plinkfiles")
    /\ UNCHANGED << envVars, walkVars, fileVars, fault, spawned >>

\* The files the validators are tried on.
File(p, r, b) == [path |-> p, readable |-> r, bytes |-> b]

\* a text file: missing, unreadable, empty, one line, or not UTF-8
TextFiles(p) ==
    {{}, {File(p, FALSE, <<65, 10>>)}, {File(p, TRUE, <<>>)},
     {File(p, TRUE, <<65, 10>>)}, {File(p, TRUE, <<255, 10>>)}}

BedBytes == {108, 27, 1, 0}
\* every content of up to three bytes, and the three-byte ones padded with 0
BedContents ==
    UNION {[1..n -> BedBytes] : n \in 0..(IF MaxBedLen < 3 THEN MaxBedLen ELSE 3)}
    \cup {h \o [i \in 1..k |-> 0] : h \in [1..3 -> BedBytes], k \in 1..(MaxBedLen - 3)}

\* a .bed file: missing, unreadable, or any of the contents
BedFiles(p) ==
    {{}, {File(p, FALSE, bed_magic_num)}} \cup {{File(p, TRUE, b)} : b \in BedContents}

PlinkArgs == {<<"/", "d", "/", "g">>, <<"/", "d", ".bed", "/", "g">>, <<"g", ".bed">>}
\* where <arg>.bed points when it is a symbolic link
BedTarget == <<"/", "s", "/", "h", ".bed">>

TextArgs == {<<"/", "d", "/", "f">>, <<"f">>, <<"/", "d", "/", "l">>}
\* where /d/l points: it is a symbolic link
TextTarget == <<"/", "s", "/", "f">>

InitPlink ==
    /\ fn = "validate_plinkfiles"
    /\ arg \in PlinkArgs
    /\ stack = << Frame("validate_plinkfiles", arg) >>
    /\ links \in {{}, {<< Absolute(arg \o <<".bed">>), BedTarget >>}}
    /\ \E b \in BedFiles(Realpath(arg \o <<".bed">>)),
          m \in TextFiles(Absolute(arg \o <<".bim">>)),
          f \in TextFiles(Absolute(arg \o <<".fam">>)) :
        files = b \cup m \cup f
    /\ proc = NoProc
    /\ dirpath = <<>> /\ pattern = NoPattern
    /\ dirs = {} /\ tree = {} /\ entries = {}
    /\ csv = NoCsv /\ usecols = {} /\ dtype = {}

InitText ==
    /\ fn = "validate_textfile"
    /\ arg \in TextArgs
    /\ stack = << Frame("validate_textfile", arg) >>
    /\ links = {<< <<"/", "d", "/", "l">>, TextTarget >>}
    /\ files \in TextFiles(Realpath(arg))
    /\ proc = NoProc
    /\ dirpath = <<>> /\ pattern = NoPattern
    /\ dirs = {} /\ tree = {} /\ entries = {}
    /\ csv = NoCsv /\ usecols = {} /\ dtype = {}

-----------------------------------------------------------------------------
(* read_dataframe *)

\* _read_csv(file, sep=sep, usecols=usecols, dtype=dtype): the exception it
\* raises, or NoExc: the file must exist, hold every requested column, and
\* every column named in dtype must convert.
ReadCsvRaises(c, cols, types) ==
    IF ~c.exists THEN Exc("FileNotFoundError", <<>>)
    ELSE IF \E u \in cols : \A i \in 1..Len(c.header) : c.header[i] # u
    THEN Exc("ValueError", <<"usecols">>)
    ELSE IF \E t \in types : t \notin c.ints
    THEN Exc("ValueError", <<"dtype">>)
    ELSE NoExc

\* the columns of the frame: the requested ones, in the order of the file
Columns(c, cols) == SelectSeq(c.header, LAMBDA h : h \in cols)

ReadDataframeDebug ==
    /\ Running("read_dataframe", "debug")
    /\ log' = Append(log, LogDebug("read_dataframe", <<>>))
    /\ stack' = SetTop([Top EXCEPT !.pc = "read"])
    /\ UNCHANGED << envVars, walkVars, fileVars, outcome, fault, spawned >>

\* df = _read_csv(...); return df
ReadDataframeRead ==
    /\ Running("read_dataframe", "read")
    /\ IF ReadCsvRaises(csv, usecols, dtype) # NoExc
       THEN /\ Catch(ReadCsvRaises(csv, usecols, dtype))
            /\ UNCHANGED outcome
       ELSE /\ Return(Columns(csv, usecols))
            /\ UNCHANGED fault
    /\ UNCHANGED << envVars, walkVars, fileVars, log, spawned >>

ReadDataframeExcept ==
    /\ Handler("read_dataframe")
    /\ UNCHANGED << envVars, walkVars, fileVars, fault, spawned >>

\* The delimited files the loader is tried on.
Headers == {<<"id">>, <<"id", "x">>, <<"x", "id">>}
Range(q) == {q[i] : i \in 1..Len(q)}

InitFrame ==
    /\ fn = "read_dataframe"
    /\ stack = << Frame("read_dataframe", <<>>) >>
    /\ \E h \in Headers, e \in BOOLEAN :
        \E n \in SUBSET Range(h) : csv = [exists |-> e, header |-> h, ints |-> n]
    /\ usecols \in {{"id"}, {"x"}, {"id", "x"}}
    /\ dtype \in SUBSET usecols
    /\ proc = NoProc /\ arg = <<>>
    /\ dirpath = <<>> /\ pattern = NoPattern
    /\ dirs = {} /\ tree = {} /\ entries = {}
    /\ files = {} /\ links = {}

-----------------------------------------------------------------------------
(* Initial states: one call, and the environment it runs in *)


InitShell ==
    /\ fn = "run_shell_cmd"
    /\ stack = << Frame("run_shell_cmd", <<>>) >>
    /\ proc \in Procs
    /\ arg = <<>> /\ dirpath = <<>> /\ pattern = NoPattern
    /\ dirs = {} /\ tree = {} /\ entries = {}
    /\ files = {} /\ links = {}
    /\ csv = NoCsv /\ usecols = {} /\ dtype = {}

Init ==
    /\ log = <<>>
    /\ outcome = Pending
    /\ fault = NoExc
    /\ spawned = FALSE
    /\ pending = <<>>
    /\ todo = {}
    /\ walkroot = <<>>
    /\ unlisted = {}
    /\ handles = {}
    /\ opened = <<>>
    /\ passed = {}
    /\ \/ InitShell
       \/ InitDelete
       \/ InitPlink
       \/ InitText
       \/ InitFrame

Next ==
    \/ RunShellCmdDebug
    \/ RunShellCmdRun
    \/ RunShellCmdExcept
    \/ DeleteFilesWithinDebug
    \/ DeleteFilesWithinWalk
    \/ DeleteFilesWithinFile
    \/ DeleteFilesWithinExcept
    \/ ValidatePlinkfilesDebug
    \/ ValidatePlinkfilesOpen
    \/ ValidatePlinkfilesCheck
    \/ ValidatePlinkfilesCall
    \/ ValidatePlinkfilesReturn
    \/ ValidatePlinkfilesExcept
    \/ ValidateTextfileDebug
    \/ ValidateTextfileOpen
    \/ ValidateTextfileRead
    \/ ValidateTextfileExcept
    \/ ReadDataframeDebug
    \/ ReadDataframeRead
    \/ ReadDataframeExcept

Spec == Init /\ [][Next]_vars

Done == stack = <<>>

-----------------------------------------------------------------------------
(* Properties *)

\* the last two records of the log
LastTwo == SubSeq(log, Len(log) - 1, Len(log))

\* the call ended by handing e to the caller, after logging it and the advisory
LoggedAndRaised(f, e) ==
    /\ outcome = Raised(e)
    /\ Len(log) >= 2
    /\ LastTwo = << LogException(f, e), LogExit(f) >>

\* C1: after delete_files_within returns normally, a regular file under
\* dirpath is gone if and only if no pattern was given or the pattern occurs
\* in its joined path; for {a.t, b.l, s/c.t} pattern ".t" removes a.t and
\* s/c.t and leaves b.l.
C1_RemovedIffSelected ==
    (fn = "delete_files_within" /\ outcome.kind = "returned") =>
        \A e \in tree :
            e.kind = "reg" => ((e \notin entries) <=> Selected(pattern, PathOf(e)))

\* C2: a failure during the traversal (a directory that cannot be listed) or
\* during a deletion is logged and re-raised, so the call does not return
\* normally after it; nothing deleted before it comes back.
C2_TraversalFailureRaised ==
    (fn = "delete_files_within" /\ Done /\ (unlisted # {} \/ fault # NoExc)) =>
        /\ LoggedAndRaised("delete_files_within", fault)
        /\ entries \subseteq tree

\* the three files of the call, as the code names them
BedPath == Realpath(arg \o <<".bed">>)
BimPath == Realpath(arg \o <<".bim">>)
FamPath == Realpath(arg \o <<".fam">>)

\* a file that open() opens and readline() reads
ReadableText(p) ==
    Exists(p) /\ FileAt(p).readable /\ \A i \in 1..Len(FileAt(p).bytes) : FileAt(p).bytes[i] # 255

\* the file starts with the bytes 108, 27, 1
StartsWithMagic(p) ==
    /\ Exists(p) /\ FileAt(p).readable
    /\ Len(FileAt(p).bytes) >= 3
    /\ FileAt(p).bytes[1] = 108 /\ FileAt(p).bytes[2] = 27 /\ FileAt(p).bytes[3] = 1

\* C3: with readable .bim and .fam, validate_plinkfiles succeeds if and only
\* if the .bed file starts with 108, 27, 1; any other content fails with an
\* error naming the .bed file, logged and re-raised.
C3_MagicDecides ==
    (fn = "validate_plinkfiles" /\ Done /\ ReadableText(BimPath) /\ ReadableText(FamPath)) =>
        /\ outcome.kind = "returned" <=> StartsWithMagic(BedPath)
        /\ (Exists(BedPath) /\ FileAt(BedPath).readable /\ ~StartsWithMagic(BedPath)) =>
              LoggedAndRaised("validate_plinkfiles", Exc("AssertionError", BedPath))

\* a .bed file longer than three bytes that starts with the magic number was accepted
C3_Witness ==
    /\ fn = "validate_plinkfiles" /\ Done /\ outcome.kind = "returned"
    /\ ReadableText(BimPath) /\ ReadableText(FamPath)
    /\ Len(FileAt(BedPath).bytes) > 3

\* C4: the value R returned by validate_plinkfiles satisfies
\* R + ".bed" = realpath(<arg>.bed), also when ".bed" occurs elsewhere in the path.
C4_ReturnIsBedPathStripped ==
    (fn = "validate_plinkfiles" /\ outcome.kind = "returned") =>
        outcome.value \o <<".bed">> = BedPath

\* C5: validate_textfile fails (logged, re-raised) on a missing file and on a
\* zero-byte file, and returns the canonical path of a non-empty readable one.
C5_EmptyOrMissingFails ==
    (fn = "validate_textfile" /\ Done) =>
        /\ (~Exists(Realpath(arg)) \/ FileAt(Realpath(arg)).bytes = <<>>) =>
              (outcome.kind = "raised" /\ Len(log) >= 2 /\ LastTwo[2] = LogExit("validate_textfile"))
        /\ (ReadableText(Realpath(arg)) /\ FileAt(Realpath(arg)).bytes # <<>>) =>
              outcome = Returned(Realpath(arg))

\* v is s without its leading and trailing whitespace
IsStripped(v, s) ==
    \E i \in 1..(Len(s) + 1), j \in 0..Len(s) :
        /\ v = SubSeq(s, i, j)
        /\ \A k \in 1..Len(s) : (k < i \/ k > j) => s[k] \in Whitespace
        /\ v # <<>> => (v[1] \notin Whitespace /\ v[Len(v)] \notin Whitespace)

\* the log of a run_shell_cmd call that met a non-zero exit code
ShellFailureLog ==
    << LogDebug("run_shell_cmd", <<>>),
       LogRec("ERROR", "run_shell_cmd", "stderr", proc.stderr),
       LogExit("run_shell_cmd") >>

NoEffectYet ==
    /\ ~spawned /\ entries = tree /\ unlisted = {}
    /\ opened = <<>> /\ handles = {} /\ outcome = Pending

\* the first record of the log is the debug trace of the invoked function
DebugFirst ==
    /\ log = <<>> => NoEffectYet
    /\ log # <<>> => (log[1].level = "DEBUG" /\ log[1].kind = "invocation" /\ log[1].fn = fn)

\* the log ends with an error-level record and the advisory
ErrorThenAdvisory ==
    /\ Len(log) >= 2
    /\ LastTwo[1].level = "ERROR" /\ LastTwo[1].kind # "_EXIT_MSG"
    /\ LastTwo[2] = LogExit(fn)

C8_TimeoutUnlogged ==
    (fn = "run_shell_cmd" /\ Done /\ TimedOut(proc)) =>
        /\ outcome = Raised(Exc("TimeoutExpired", <<>>))
        /\ outcome.exc.type # "CalledProcessError"
        /\ \A i \in 1..Len(log) : log[i].level # "ERROR"

\* a command with a non-zero exit code of its own ran into the timeout
C8_Witness ==
    fn = "run_shell_cmd" /\ Done /\ TimedOut(proc) /\ outcome.kind = "raised" /\ proc.rc # 0

\* the files a validate_plinkfiles call opens, in order
PlinkOrder == << BedPath, BimPath, FamPath >>

\* C9: in the validators at most one file is open at any time, the files are
\* opened in the order .bed, .bim, .fam, each only after the one before
\* passed its check and was closed, and none is open when the call is over.
C9_HandlesScoped ==
    (fn \in {"validate_plinkfiles", "validate_textfile"}) =>
        /\ Cardinality(handles) <= 1
        /\ Done => handles = {}
        /\ handles # {} => handles = {opened[Len(opened)]}
        /\ \A i \in 1..Len(opened) :
              i < Len(opened) => (opened[i] \in passed /\ opened[i] \notin handles)
        /\ fn = "validate_plinkfiles" =>
              (Len(opened) <= 3 /\ opened = SubSeq(PlinkOrder, 1, Len(opened)))
        /\ fn = "validate_textfile" =>
              (Len(opened) <= 1 /\ opened = SubSeq(<< Realpath(arg) >>, 1, Len(opened)))

\* the .fam file is open, after .bed and .bim were opened and closed
C9_Witness ==
    fn = "validate_plinkfiles" /\ Len(opened) = 3 /\ handles = {FamPath}

\* C10: when validate_plinkfiles returns B, the three files at B passed:
\* B.bed holds the magic number, B.bim and B.fam are the files the text
\* validation opened and read.
C10_ReturnedTripleValidated ==
    (fn = "validate_plinkfiles" /\ outcome.kind = "returned") =>
        /\ StartsWithMagic(outcome.value \o <<".bed">>)
        /\ outcome.value \o <<".bim">> \in passed
        /\ outcome.value \o <<".fam">> \in passed

=============================================================================
